---- MODULE Spec2Model ----
(***************************************************************************)
(* Model of the scoreboard program of src/main.rs: the registry (struct    *)
(* Scoreboard and its methods), the boundary read (get_input and           *)
(* get_input_safe) and the interaction loop of main.                       *)
(*                                                                         *)
(* A name is a sequence of Unicode scalar values (integers).  A String's   *)
(* len() is its UTF-8 byte length, so the encoding width of every scalar   *)
(* value is modelled.  A HashMap is a function whose DOMAIN is its key set.*)
(***************************************************************************)
EXTENDS Integers, Sequences, FiniteSets, TLC

VARIABLES players, scores, next_id, last, issued, rounds, wins, late, out,
          pc, io

vars ==
    <<players, scores, next_id, last, issued, rounds, wins, late, out, pc, io>>

(***************************************************************************)
(* Bounds of the exploration.                                              *)
(***************************************************************************)
MaxPlayers == 3
MaxRounds == 2
MaxNameLen == 21

(***************************************************************************)
(* Program constant: the limit compared with name.len() in add_player.     *)
(***************************************************************************)
NAME_LIMIT == 20

(***************************************************************************)
(* The range of the i32 that holds a score.  An `+= 1` or `-= 1` that      *)
(* leaves the range panics in a build with overflow checks (the debug      *)
(* profile) and wraps around in a build without them (the release          *)
(* profile).                                                               *)
(***************************************************************************)
I32_MAX == 2147483647

I32_MIN == (-I32_MAX) - 1

\* `*score += 1` on an i32.
Inc32(x) ==
    IF x = I32_MAX THEN [overflow |-> TRUE, value |-> I32_MIN]
    ELSE [overflow |-> FALSE, value |-> x + 1]

\* `*score -= 1` on an i32.
Dec32(x) ==
    IF x = I32_MIN THEN [overflow |-> TRUE, value |-> I32_MAX]
    ELSE [overflow |-> FALSE, value |-> x - 1]

(***************************************************************************)
(* Characters and strings.                                                 *)
(***************************************************************************)
\* char::len_utf8: the number of bytes of the UTF-8 encoding of c.
Utf8Len(c) ==
    IF c < 128 THEN 1
    ELSE IF c < 2048 THEN 2
    ELSE IF c < 65536 THEN 3
    ELSE 4

\* String::len(): the length in BYTES of the UTF-8 encoding.
RECURSIVE ByteLen(_)
ByteLen(s) ==
    IF s = <<>> THEN 0 ELSE Utf8Len(Head(s)) + ByteLen(Tail(s))

\* str::chars().count(): the number of Unicode scalar values.
CharCount(s) == Len(s)

\* char::is_control: general category Cc (U+0000..U+001F, U+007F..U+009F).
IsControl(c) == (c >= 0 /\ c <= 31) \/ (c >= 127 /\ c <= 159)

\* The closure of add_player's any(): c.is_control() || '\t' || '\n' || '\r'.
IsForbidden(c) == IsControl(c) \/ c = 9 \/ c = 10 \/ c = 13

HasForbidden(s) == \E i \in 1..Len(s) : IsForbidden(s[i])

\* char::is_whitespace (Unicode White_Space), used by str::trim.
IsWhitespace(c) ==
    \/ (c >= 9 /\ c <= 13)
    \/ c = 32
    \/ c = 133
    \/ c = 160
    \/ c = 5760
    \/ (c >= 8192 /\ c <= 8202)
    \/ c \in {8232, 8233, 8239, 8287, 12288}

RECURSIVE TrimStart(_)
TrimStart(s) ==
    IF s = <<>> THEN s
    ELSE IF IsWhitespace(Head(s)) THEN TrimStart(Tail(s))
    ELSE s

RECURSIVE TrimEnd(_)
TrimEnd(s) ==
    IF s = <<>> THEN s
    ELSE IF IsWhitespace(s[Len(s)]) THEN TrimEnd(SubSeq(s, 1, Len(s) - 1))
    ELSE s

\* str::trim: strips leading and trailing whitespace.
Trim(s) == TrimEnd(TrimStart(s))

\* char::to_lowercase restricted to the scalar values of the model.
ToLowerChar(c) == IF c >= 65 /\ c <= 90 THEN c + 32 ELSE c

ToLower(s) == [i \in 1..Len(s) |-> ToLowerChar(s[i])]

Rep(c, n) == [i \in 1..n |-> c]

(***************************************************************************)
(* The names offered to add_player.  97 = 'a', 65 = 'A', 32 = ' ',         *)
(* 9 = tab, 10 = newline, 13 = carriage return, 127 = DEL, 133 = NEL       *)
(* (a two-byte control character), 24352 = a three-byte CJK character.     *)
(***************************************************************************)
Names ==
    {<<>>}
    \cup {Rep(97, n) : n \in NAME_LIMIT..MaxNameLen}
    \cup {Rep(24352, n) : n \in {6, 7, NAME_LIMIT}}
    \cup {Rep(65, NAME_LIMIT), <<32>>, <<97, 10>>, <<10, 97>>,
          <<97, 13>>, <<97, 9, 97>>, <<97, 133>>,
          Rep(97, NAME_LIMIT + 1) \o <<10>>}

\* The winner ids offered to update_scores (999 is never issued).
WinnerIds == (0..(MaxPlayers + 1)) \cup {999}

(***************************************************************************)
(* HashMap helpers.                                                        *)
(***************************************************************************)
\* HashMap::insert
Insert(m, k, v) == [x \in (DOMAIN m) \cup {k} |-> IF x = k THEN v ELSE m[x]]

\* HashMap::values
Values(m) == {m[k] : k \in DOMAIN m}

EmptyMap == [x \in {} |-> 0]

(***************************************************************************)
(* Scoreboard::new                                                         *)
(***************************************************************************)
new == [players |-> EmptyMap, scores |-> EmptyMap, next_id |-> 1]

(***************************************************************************)
(* Scoreboard::add_player, lines 19-37: the four checks in source order.   *)
(* The value is the kind of the Err message, or "Ok" when all pass.        *)
(***************************************************************************)
Validate_no_empty_check(sb, name) ==
    IF ByteLen(name) > NAME_LIMIT THEN "NameTooLong"
    ELSE IF HasForbidden(name) THEN "InvalidCharacters"
    ELSE IF \E k \in DOMAIN sb.players : sb.players[k] = name
        THEN "DuplicateName"
    ELSE "Ok"

Validate_no_control_check(sb, name) ==
    IF name = <<>> THEN "EmptyName"
    ELSE IF ByteLen(name) > NAME_LIMIT THEN "NameTooLong"
    ELSE IF \E k \in DOMAIN sb.players : sb.players[k] = name
        THEN "DuplicateName"
    ELSE "Ok"

Validate_no_unique_check(sb, name) ==
    IF name = <<>> THEN "EmptyName"
    ELSE IF ByteLen(name) > NAME_LIMIT THEN "NameTooLong"
    ELSE IF HasForbidden(name) THEN "InvalidCharacters"
    ELSE "Ok"

Validate_control_before_length(sb, name) ==
    IF name = <<>> THEN "EmptyName"
    ELSE IF HasForbidden(name) THEN "InvalidCharacters"
    ELSE IF ByteLen(name) > NAME_LIMIT THEN "NameTooLong"
    ELSE IF \E k \in DOMAIN sb.players : sb.players[k] = name
        THEN "DuplicateName"
    ELSE "Ok"

Validate(sb, name) ==
    IF name = <<>> THEN "EmptyName"
    ELSE IF ByteLen(name) > NAME_LIMIT THEN "NameTooLong"
    ELSE IF HasForbidden(name) THEN "InvalidCharacters"
    ELSE IF \E k \in DOMAIN sb.players : sb.players[k] = name
        THEN "DuplicateName"
    ELSE "Ok"

(***************************************************************************)
(* Scoreboard::add_player, lines 39-42: the board after a successful call. *)
(***************************************************************************)
Admit_no_score(sb, name) ==
    [players |-> Insert(sb.players, sb.next_id, name),
     scores  |-> sb.scores,
     next_id |-> sb.next_id + 1]

Admit_skip_id(sb, name) ==
    [players |-> Insert(sb.players, sb.next_id, name),
     scores  |-> Insert(sb.scores, sb.next_id, 0),
     next_id |-> sb.next_id + 2]

Admit_reset_scores(sb, name) ==
    [players |-> Insert(sb.players, sb.next_id, name),
     scores  |-> [k \in (DOMAIN sb.scores) \cup {sb.next_id} |-> 0],
     next_id |-> sb.next_id + 1]

Admit(sb, name) ==
    [players |-> Insert(sb.players, sb.next_id, name),
     scores  |-> Insert(sb.scores, sb.next_id, 0),
     next_id |-> sb.next_id + 1]

(***************************************************************************)
(* Scoreboard::add_player.  The result carries the board after the call,   *)
(* the outcome (Ok or the kind of the Err message) and the returned id     *)
(* (0 when the call failed).                                               *)
(***************************************************************************)
add_player_failed_invalid_takes_id(sb, name) ==
    LET v == Validate(sb, name) IN
    IF v = "Ok" THEN [sb |-> Admit(sb, name), res |-> "Ok", id |-> sb.next_id]
    ELSE IF v = "InvalidCharacters" /\ sb.next_id <= MaxPlayers
        THEN [sb |-> [sb EXCEPT !.next_id = @ + 1], res |-> v, id |-> 0]
    ELSE [sb |-> sb, res |-> v, id |-> 0]

add_player_failed_duplicate_takes_id(sb, name) ==
    LET v == Validate(sb, name) IN
    IF v = "Ok" THEN [sb |-> Admit(sb, name), res |-> "Ok", id |-> sb.next_id]
    ELSE IF v = "DuplicateName" /\ sb.next_id <= MaxPlayers
        THEN [sb |-> [sb EXCEPT !.next_id = @ + 1], res |-> v, id |-> 0]
    ELSE [sb |-> sb, res |-> v, id |-> 0]

add_player(sb, name) ==
    LET v == Validate(sb, name) IN
    IF v = "Ok" THEN [sb |-> Admit(sb, name), res |-> "Ok", id |-> sb.next_id]
    ELSE [sb |-> sb, res |-> v, id |-> 0]

(***************************************************************************)
(* Scoreboard::update_scores.  The value is the set of outcomes the call   *)
(* can have: one outcome unless an i32 overflows, where the build decides. *)
(* "Panic" is the unwrap() of a missing score entry of the winner and      *)
(* "Overflow" the panic of a checked `+= 1` or `-= 1`.  The winner is      *)
(* raised first, then the loop lowers every entry whose id differs from    *)
(* the winner's; the loop visits the entries in the HashMap's order, so a  *)
(* panic in the loop leaves any set of the other entries already lowered.  *)
(***************************************************************************)
update_scores_lower_all(sb, winner_id) ==
    IF winner_id \notin DOMAIN sb.players THEN
        {[sb |-> sb, res |-> "UnknownPlayer"]}
    ELSE IF winner_id \notin DOMAIN sb.scores THEN
        {[sb |-> sb, res |-> "Panic"]}
    ELSE
        LET s1 == [sb.scores EXCEPT ![winner_id] = @ + 1]
            s2 == [id \in DOMAIN s1 |-> s1[id] - 1]
        IN {[sb |-> [sb EXCEPT !.scores = s2], res |-> "Ok"]}

update_scores_late_lookup(sb, winner_id) ==
    LET s2 == [id \in DOMAIN sb.scores |->
                  IF id # winner_id THEN sb.scores[id] - 1
                  ELSE sb.scores[id] + 1]
    IN IF winner_id \notin DOMAIN sb.players
       THEN {[sb |-> [sb EXCEPT !.scores = s2], res |-> "UnknownPlayer"]}
       ELSE {[sb |-> [sb EXCEPT !.scores = s2], res |-> "Ok"]}

update_scores_skip_losers(sb, winner_id) ==
    IF winner_id \notin DOMAIN sb.players THEN
        {[sb |-> sb, res |-> "UnknownPlayer"]}
    ELSE IF winner_id \notin DOMAIN sb.scores THEN
        {[sb |-> sb, res |-> "Panic"]}
    ELSE
        LET s1 == [sb.scores EXCEPT ![winner_id] = @ + 1]
        IN {[sb |-> [sb EXCEPT !.scores = s1], res |-> "Ok"]}

update_scores_keep_winner(sb, winner_id) ==
    IF winner_id \notin DOMAIN sb.players THEN
        {[sb |-> sb, res |-> "UnknownPlayer"]}
    ELSE IF winner_id \notin DOMAIN sb.scores THEN
        {[sb |-> sb, res |-> "Panic"]}
    ELSE
        LET s2 == [id \in DOMAIN sb.scores |->
                      IF id # winner_id THEN sb.scores[id] - 1
                      ELSE sb.scores[id]]
        IN {[sb |-> [sb EXCEPT !.scores = s2], res |-> "Ok"]}

update_scores(sb, winner_id) ==
    IF winner_id \notin DOMAIN sb.players THEN
        {[sb |-> sb, res |-> "UnknownPlayer"]}
    ELSE IF winner_id \notin DOMAIN sb.scores THEN
        {[sb |-> sb, res |-> "Panic"]}
    ELSE
        LET up == Inc32(sb.scores[winner_id])
            s1 == [sb.scores EXCEPT ![winner_id] = up.value]
            others == (DOMAIN s1) \ {winner_id}
            under == {id \in others : Dec32(s1[id]).overflow}
            s2 == [id \in DOMAIN s1 |->
                      IF id # winner_id THEN Dec32(s1[id]).value ELSE s1[id]]
            unchecked == {[sb |-> [sb EXCEPT !.scores = s2], res |-> "Ok"]}
            checked ==
                IF up.overflow THEN {[sb |-> sb, res |-> "Overflow"]}
                ELSE IF under # {} THEN
                    {[sb |-> [sb EXCEPT !.scores =
                                 [id \in DOMAIN s1 |->
                                     IF id \in D THEN Dec32(s1[id]).value
                                     ELSE s1[id]]],
                      res |-> "Overflow"] : D \in SUBSET (others \ under)}
                ELSE unchecked
        IN unchecked \cup checked

(***************************************************************************)
(* The listings.  HashMap::iter yields the entries in an order the program *)
(* does not control: order is any enumeration of the keys.  sort_by_key    *)
(* is a stable sort on the id; out is the sequence of rows printed, the    *)
(* board is borrowed immutably and returned as it was.                     *)
(***************************************************************************)
Orders(S) ==
    {q \in [1..Cardinality(S) -> S] :
        \A i, j \in DOMAIN q : i # j => q[i] # q[j]}

RECURSIVE InsertByKey(_, _)
InsertByKey(sorted, id) ==
    IF sorted = <<>> THEN <<id>>
    ELSE IF id < Head(sorted) THEN <<id>> \o sorted
    ELSE <<Head(sorted)>> \o InsertByKey(Tail(sorted), id)

sort_by_key_unsorted(q) == q

RECURSIVE sort_by_key(_)
sort_by_key(q) ==
    IF q = <<>> THEN <<>>
    ELSE InsertByKey(sort_by_key(SubSeq(q, 1, Len(q) - 1)), q[Len(q)])

display_scoreboard_draining(sb, order) ==
    LET sorted == sort_by_key(order) IN
    [sb |-> [sb EXCEPT !.players = EmptyMap],
     out |-> [i \in 1..Len(sorted) |->
                 [id |-> sorted[i],
                  name |-> sb.players[sorted[i]],
                  score |-> IF sorted[i] \in DOMAIN sb.scores
                            THEN sb.scores[sorted[i]] ELSE 0]]]

display_scoreboard(sb, order) ==
    LET sorted == sort_by_key(order) IN
    [sb |-> sb,
     out |-> [i \in 1..Len(sorted) |->
                 [id |-> sorted[i],
                  name |-> sb.players[sorted[i]],
                  score |-> IF sorted[i] \in DOMAIN sb.scores
                            THEN sb.scores[sorted[i]] ELSE 0]]]

list_players(sb, order) ==
    LET sorted == sort_by_key(order) IN
    [sb |-> sb,
     out |-> [i \in 1..Len(sorted) |->
                 [id |-> sorted[i], name |-> sb.players[sorted[i]]]]]

(***************************************************************************)
(* State machine: any sequence of add_player and update_scores calls on a  *)
(* fresh Scoreboard.  last records the latest call, its outcome and the    *)
(* board it was made on; issued is the sequence of ids returned by the     *)
(* successful add_player calls; rounds counts the successful update_scores *)
(* calls of the run and wins[id] those of them that named id; late records *)
(* that an add_player succeeded after a successful update_scores; out is   *)
(* the sequence of rows the latest call printed.  A panic ends the         *)
(* process: no call follows it.                                            *)
(***************************************************************************)
Board == [players |-> players, scores |-> scores, next_id |-> next_id]

\* No boundary read has been made.
NoIo == [kind |-> "none", raw |-> <<>>, at |-> "api",
         result |-> "none", line |-> <<>>]

Alive == last.res \notin {"Panic", "Overflow"}

Init ==
    /\ players = new.players
    /\ scores = new.scores
    /\ next_id = new.next_id
    /\ last = [op |-> "new", name |-> <<>>, winner_id |-> 0,
               res |-> "Ok", id |-> 0, pre |-> new]
    /\ issued = <<>>
    /\ rounds = 0
    /\ wins = EmptyMap
    /\ late = FALSE
    /\ out = <<>>
    /\ pc = "api"
    /\ io = NoIo

AddPlayer(name) ==
    LET r == add_player(Board, name) IN
    /\ Alive
    /\ r.res = "Ok" => Len(issued) < MaxPlayers
    /\ players' = r.sb.players
    /\ scores' = r.sb.scores
    /\ next_id' = r.sb.next_id
    /\ last' = [op |-> "add_player", name |-> name, winner_id |-> 0,
                res |-> r.res, id |-> r.id, pre |-> Board]
    /\ issued' = IF r.res = "Ok" THEN Append(issued, r.id) ELSE issued
    /\ wins' = IF r.res = "Ok" THEN Insert(wins, r.id, 0) ELSE wins
    /\ late' = (late \/ (r.res = "Ok" /\ rounds > 0))
    /\ out' = <<>>
    /\ UNCHANGED <<rounds, pc, io>>

UpdateScores(winner_id) ==
    \E r \in update_scores(Board, winner_id) :
        /\ Alive
        /\ r.res = "Ok" => rounds < MaxRounds
        /\ players' = r.sb.players
        /\ scores' = r.sb.scores
        /\ next_id' = r.sb.next_id
        /\ last' = [op |-> "update_scores", name |-> <<>>,
                    winner_id |-> winner_id,
                    res |-> r.res, id |-> 0, pre |-> Board]
        /\ rounds' = IF r.res = "Ok" THEN rounds + 1 ELSE rounds
        /\ wins' = IF r.res = "Ok"
                   THEN [wins EXCEPT ![winner_id] = @ + 1] ELSE wins
        /\ out' = <<>>
        /\ UNCHANGED <<issued, late, pc, io>>

Next ==
    \/ \E name \in Names : AddPlayer(name)
    \/ \E winner_id \in WinnerIds : UpdateScores(winner_id)

Spec == Init /\ [][Next]_vars

(***************************************************************************)
(* The same calls together with the two listings.  The names offered here  *)
(* are the empty name and the names a fresh board accepts.                 *)
(***************************************************************************)
ListedNames == {<<>>} \cup {name \in Names : Validate(new, name) = "Ok"}

DisplayScoreboard ==
    \E order \in Orders(DOMAIN players) :
        LET r == display_scoreboard(Board, order) IN
        /\ Alive
        /\ players' = r.sb.players
        /\ scores' = r.sb.scores
        /\ next_id' = r.sb.next_id
        /\ last' = [op |-> "display_scoreboard", name |-> <<>>,
                    winner_id |-> 0, res |-> "Ok", id |-> 0, pre |-> Board]
        /\ out' = r.out
        /\ UNCHANGED <<issued, rounds, wins, late, pc, io>>

ListPlayers ==
    \E order \in Orders(DOMAIN players) :
        LET r == list_players(Board, order) IN
        /\ Alive
        /\ players' = r.sb.players
        /\ scores' = r.sb.scores
        /\ next_id' = r.sb.next_id
        /\ last' = [op |-> "list_players", name |-> <<>>,
                    winner_id |-> 0, res |-> "Ok", id |-> 0, pre |-> Board]
        /\ out' = r.out
        /\ UNCHANGED <<issued, rounds, wins, late, pc, io>>

NextRead ==
    \/ \E name \in ListedNames : AddPlayer(name)
    \/ \E winner_id \in WinnerIds : UpdateScores(winner_id)
    \/ DisplayScoreboard
    \/ ListPlayers

SpecRead == Init /\ [][NextRead]_vars

(***************************************************************************)
(* The same calls on a board the program reaches after about 2^31 rounds   *)
(* among three players: either player 1 won every round, or player 3 lost  *)
(* every round while players 1 and 2 shared the wins.  rounds and wins     *)
(* count from that board on.                                               *)
(***************************************************************************)
LongRunScores ==
    {<<I32_MAX - 1, 1 - I32_MAX, 1 - I32_MAX>>,
     <<I32_MAX, -I32_MAX, -I32_MAX>>,
     <<1, -1, -I32_MAX>>,
     <<0, 0, I32_MIN>>}

LongRunPlayers == <<Rep(97, NAME_LIMIT), Rep(65, NAME_LIMIT), Rep(24352, 6)>>

InitLongRun ==
    /\ players = LongRunPlayers
    /\ scores \in LongRunScores
    /\ next_id = Len(LongRunPlayers) + 1
    /\ last = [op |-> "new", name |-> <<>>, winner_id |-> 0,
               res |-> "Ok", id |-> 0, pre |-> Board]
    /\ issued = [k \in 1..Len(LongRunPlayers) |-> k]
    /\ rounds = 0
    /\ wins = [k \in 1..Len(LongRunPlayers) |-> 0]
    /\ late = FALSE
    /\ out = <<>>
    /\ pc = "api"
    /\ io = NoIo

SpecLongRun == InitLongRun /\ [][Next]_vars

(***************************************************************************)
(* The boundary read.  An input event is what one call of get_input meets: *)
(* a failed flush of the prompt, the end of the input, a read error, or a  *)
(* line (raw, as read_line delivers it).  The Err messages are the         *)
(* strings of the source, because get_input_safe decides between retry     *)
(* and exit by searching them for "EOF" and for the word "input stream".   *)
(***************************************************************************)
INPUT_LIMIT == 50

\* "输出缓冲区刷新失败"
ERR_FLUSH == <<36755, 20986, 32531, 20914, 21306, 21047, 26032, 22833, 36133>>

\* "输入流已结束 (EOF)"
ERR_EOF == <<36755, 20837, 27969, 24050, 32467, 26463, 32, 40, 69, 79, 70, 41>>

\* "输入内容过长，请限制在50个字符以内"
ERR_TOO_LONG ==
    <<36755, 20837, 20869, 23481, 36807, 38271, 65292, 35831, 38480, 21046,
      22312, 53, 48, 20010, 23383, 31526, 20197, 20869>>

\* "读取输入失败，可能是由于输入流错误或中断"
ERR_READ ==
    <<35835, 21462, 36755, 20837, 22833, 36133, 65292, 21487, 33021, 26159,
      30001, 20110, 36755, 20837, 27969, 38169, 35823, 25110, 20013, 26029>>

\* "EOF"
PAT_EOF == <<69, 79, 70>>

\* "输入流"
PAT_STREAM == <<36755, 20837, 27969>>

\* "输入"
PAT_INPUT == <<36755, 20837>>

\* str::contains
Contains(s, pat) ==
    \E i \in 0..(Len(s) - Len(pat)) : SubSeq(s, i + 1, i + Len(pat)) = pat

get_input(ev) ==
    IF ev.kind = "flush_err" THEN [ok |-> FALSE, val |-> ERR_FLUSH]
    ELSE IF ev.kind = "eof" THEN [ok |-> FALSE, val |-> ERR_EOF]
    ELSE IF ev.kind = "line" THEN
        LET trimmed == Trim(ev.raw) IN
        IF ByteLen(trimmed) > INPUT_LIMIT
        THEN [ok |-> FALSE, val |-> ERR_TOO_LONG]
        ELSE [ok |-> TRUE, val |-> trimmed]
    ELSE [ok |-> FALSE, val |-> ERR_READ]

\* The test of get_input_safe that sends an Err to process::exit(1).
is_fatal_any_input_error(e) == Contains(e, PAT_EOF) \/ Contains(e, PAT_INPUT)

is_fatal(e) == Contains(e, PAT_EOF) \/ Contains(e, PAT_STREAM)

\* One iteration of the loop of get_input_safe.
get_input_safe(ev) ==
    LET r == get_input(ev) IN
    IF r.ok THEN [result |-> "returned", line |-> r.val]
    ELSE IF is_fatal(r.val) THEN [result |-> "exit", line |-> <<>>]
    ELSE [result |-> "retry", line |-> <<>>]

(***************************************************************************)
(* The winner token.  A usize is kept as its decimal digits without        *)
(* leading zeros, so that values beyond the integers of the model checker  *)
(* stay exact; usize is 64 bits wide.                                      *)
(***************************************************************************)
ID_LIMIT == 1000

\* char::is_ascii_digit
IsAsciiDigit(c) == c >= 48 /\ c <= 57

\* The digits of usize::MAX = 18446744073709551615.
USIZE_MAX == <<1, 8, 4, 4, 6, 7, 4, 4, 0, 7, 3, 7, 0, 9, 5, 5, 1, 6, 1, 5>>

RECURSIVE StripZeros(_)
StripZeros(d) ==
    IF Len(d) > 1 /\ Head(d) = 0 THEN StripZeros(Tail(d)) ELSE d

\* a <= b for digit sequences of the same length.
RECURSIVE DigitsLeq(_, _)
DigitsLeq(a, b) ==
    IF a = <<>> THEN TRUE
    ELSE IF Head(a) < Head(b) THEN TRUE
    ELSE IF Head(a) > Head(b) THEN FALSE
    ELSE DigitsLeq(Tail(a), Tail(b))

FitsUsize(d) ==
    \/ Len(d) < Len(USIZE_MAX)
    \/ (Len(d) = Len(USIZE_MAX) /\ DigitsLeq(d, USIZE_MAX))

\* str::parse::<usize>: an optional '+', then one or more ASCII digits.
parse_usize(s) ==
    LET body == IF s # <<>> /\ Head(s) = 43 THEN Tail(s) ELSE s
        d == StripZeros([i \in 1..Len(body) |-> body[i] - 48])
    IN IF body = <<>> \/ \E i \in 1..Len(body) : ~IsAsciiDigit(body[i])
       THEN [ok |-> FALSE, digits |-> <<>>]
       ELSE IF ~FitsUsize(d) THEN [ok |-> FALSE, digits |-> <<>>]
       ELSE [ok |-> TRUE, digits |-> d]

\* The value of at most four digits.
RECURSIVE SmallValue(_)
SmallValue(d) ==
    IF d = <<>> THEN 0
    ELSE SmallValue(SubSeq(d, 1, Len(d) - 1)) * 10 + d[Len(d)]

\* winner_id == 0 and winner_id > 1000 on the digits of a usize.
IsZero(d) == d = <<0>>

ExceedsIdLimit(d) == Len(d) > 4 \/ SmallValue(d) > ID_LIMIT

(***************************************************************************)
(* The bodies of the two loops of main, from the value get_input_safe      *)
(* returned to the next prompt.  The value gives the board after the step, *)
(* the call the step made on the registry (NoCall when none), the rows of  *)
(* the last listing it printed and the prompt that follows; it is a set    *)
(* because update_scores has several outcomes when an i32 overflows.       *)
(***************************************************************************)
\* "done"
DONE == <<100, 111, 110, 101>>

NoCall ==
    [op |-> "none", name |-> <<>>, winner_id |-> 0, res |-> "Ok", id |-> 0]

\* The rows a listing prints, over every order the HashMap may yield.
Shown(sb) ==
    {display_scoreboard(sb, order).out : order \in Orders(DOMAIN sb.players)}

Listed(sb) ==
    {list_players(sb, order).out : order \in Orders(DOMAIN sb.players)}

Quiet(sb, next) == {[sb |-> sb, call |-> NoCall, out |-> <<>>, pc |-> next]}

Added(sb, name) ==
    LET r == add_player(sb, name) IN
    {[sb |-> r.sb,
      call |-> [op |-> "add_player", name |-> name, winner_id |-> 0,
                res |-> r.res, id |-> r.id],
      out |-> <<>>, pc |-> "registration"]}

\* The registration loop, lines 191-215.
registration_step_done_always_breaks(sb, name) ==
    IF ToLower(name) = DONE THEN
        {[sb |-> sb, call |-> NoCall, out |-> rows, pc |-> "menu"] :
            rows \in Shown(sb)}
    ELSE Added(sb, name)

registration_step(sb, name) ==
    IF ToLower(name) = DONE THEN
        IF DOMAIN sb.players = {} THEN Quiet(sb, "registration")
        ELSE {[sb |-> sb, call |-> NoCall, out |-> rows, pc |-> "menu"] :
                 rows \in Shown(sb)}
    ELSE Added(sb, name)

\* The menu loop up to the second prompt, lines 225-230 and 268-281.
menu_step(sb, choice) ==
    IF choice = <<49>> THEN
        {[sb |-> sb, call |-> NoCall, out |-> rows, pc |-> "winner"] :
            rows \in Listed(sb)}
    ELSE IF choice = <<50>> THEN
        {[sb |-> sb, call |-> NoCall, out |-> rows, pc |-> "menu"] :
            rows \in Shown(sb)}
    ELSE IF choice = <<51>> THEN
        {[sb |-> sb, call |-> NoCall, out |-> rows, pc |-> "menu"] :
            rows \in Listed(sb)}
    ELSE IF choice = <<52>> THEN Quiet(sb, "finished")
    ELSE Quiet(sb, "menu")

\* The update of choice 1, lines 257-263, for a winner id within the limits.
record_result(sb, winner_id) ==
    UNION {
        {[sb |-> r.sb,
          call |-> [op |-> "update_scores", name |-> <<>>,
                    winner_id |-> winner_id, res |-> r.res, id |-> 0],
          out |-> rows,
          pc |-> IF r.res \in {"Ok", "UnknownPlayer"} THEN "menu"
                 ELSE "panic"] :
            rows \in IF r.res = "Ok" THEN Shown(r.sb) ELSE {<<>>}} :
        r \in update_scores(sb, winner_id)}

\* Choice 1 after the second prompt, lines 233-266.
winner_step_no_upper_limit(sb, winner_input) ==
    LET parsed == parse_usize(winner_input) IN
    IF winner_input = <<>> THEN Quiet(sb, "menu")
    ELSE IF \E i \in 1..Len(winner_input) : ~IsAsciiDigit(winner_input[i])
        THEN Quiet(sb, "menu")
    ELSE IF ~parsed.ok THEN Quiet(sb, "menu")
    ELSE IF IsZero(parsed.digits) THEN Quiet(sb, "menu")
    ELSE IF Len(parsed.digits) > 4 THEN Quiet(sb, "menu")
    ELSE record_result(sb, SmallValue(parsed.digits))

winner_step(sb, winner_input) ==
    LET parsed == parse_usize(winner_input) IN
    IF winner_input = <<>> THEN Quiet(sb, "menu")
    ELSE IF \E i \in 1..Len(winner_input) : ~IsAsciiDigit(winner_input[i])
        THEN Quiet(sb, "menu")
    ELSE IF ~parsed.ok THEN Quiet(sb, "menu")
    ELSE IF IsZero(parsed.digits) THEN Quiet(sb, "menu")
    ELSE IF ExceedsIdLimit(parsed.digits) THEN Quiet(sb, "menu")
    ELSE record_result(sb, SmallValue(parsed.digits))

(***************************************************************************)
(* The input events offered at each prompt.                                *)
(***************************************************************************)
Line(raw) == [kind |-> "line", raw |-> raw]

Failures ==
    {[kind |-> k, raw |-> <<>>] : k \in {"flush_err", "eof", "read_err"}}

\* "done\n", "DONE\n", "Done" (last line without newline), "\n", "   \n",
\* " a \n", "A\n", "1\n", six CJK characters, seven CJK characters,
\* 21 letters, "a\tb\n", 51 letters, 17 CJK characters (51 bytes),
\* and a letter framed by 30 spaces on each side.
RegistrationLines ==
    {<<100, 111, 110, 101, 10>>,
     <<68, 79, 78, 69, 10>>, <<68, 111, 110, 101>>, <<10>>, <<32, 32, 32, 10>>,
     <<32, 97, 32, 10>>, <<65, 10>>, <<49, 10>>,
     Rep(24352, 6) \o <<10>>, Rep(24352, 7) \o <<10>>,
     Rep(97, NAME_LIMIT + 1) \o <<10>>, <<97, 9, 98, 10>>,
     Rep(97, INPUT_LIMIT + 1) \o <<10>>, Rep(24352, 17) \o <<10>>,
     Rep(32, 30) \o <<97>> \o Rep(32, 30) \o <<10>>}

\* "1\n", " 2 \n", "3\n", "4\n", "5\n", "01\n", "\n", "done\n", 51 digits 1.
MenuLines ==
    {<<49, 10>>, <<32, 50, 32, 10>>, <<51, 10>>, <<52, 10>>, <<53, 10>>,
     <<48, 49, 10>>, <<10>>, <<100, 111, 110, 101, 10>>,
     Rep(49, INPUT_LIMIT + 1) \o <<10>>}

\* "1\n", "2\n", " 3\n", "4\n", "01\n", "0\n", "1000\n", "1001\n", "999\n",
\* "\n", "x\n", "-1\n", "+1\n", "1.0\n", a fullwidth digit one,
\* twenty digits 9 (beyond usize), fifty digits 0 followed by nothing,
\* 51 digits 1.
WinnerLines ==
    {<<49, 10>>, <<50, 10>>, <<32, 51, 10>>, <<52, 10>>, <<48, 49, 10>>,
     <<48, 10>>, <<49, 48, 48, 48, 10>>, <<49, 48, 48, 49, 10>>,
     <<57, 57, 57, 10>>, <<10>>, <<120, 10>>, <<45, 49, 10>>, <<43, 49, 10>>,
     <<49, 46, 48, 10>>, <<65297, 10>>, Rep(57, 20) \o <<10>>,
     Rep(48, INPUT_LIMIT) \o <<10>>, Rep(49, INPUT_LIMIT + 1) \o <<10>>}

(***************************************************************************)
(* State machine of main: pc is the prompt the program waits at            *)
(* ("registration", "menu", "winner"), or "finished" after choice 4,       *)
(* "exit1" after process::exit(1), "panic" after a panic.  A step is one   *)
(* call of get_input inside get_input_safe, followed, when a line is       *)
(* returned, by the loop body up to the next prompt.  io records the       *)
(* event, the prompt it arrived at and what get_input_safe made of it;     *)
(* last is the registry call the step made.                                *)
(***************************************************************************)
InitMain ==
    /\ players = new.players
    /\ scores = new.scores
    /\ next_id = new.next_id
    /\ last = [op |-> "new", name |-> <<>>, winner_id |-> 0,
               res |-> "Ok", id |-> 0, pre |-> new]
    /\ issued = <<>>
    /\ rounds = 0
    /\ wins = EmptyMap
    /\ late = FALSE
    /\ out = <<>>
    /\ pc = "registration"
    /\ io = [NoIo EXCEPT !.at = "registration"]

\* The effect of a step on the state, given the read and the loop body.
Step(ev, g, b) ==
    /\ io' = [kind |-> ev.kind, raw |-> ev.raw, at |-> pc,
              result |-> g.result, line |-> g.line]
    /\ players' = b.sb.players
    /\ scores' = b.sb.scores
    /\ next_id' = b.sb.next_id
    /\ last' = [op |-> b.call.op, name |-> b.call.name,
                winner_id |-> b.call.winner_id, res |-> b.call.res,
                id |-> b.call.id, pre |-> Board]
    /\ out' = b.out
    /\ pc' = b.pc
    /\ LET added == b.call.op = "add_player" /\ b.call.res = "Ok"
           scored == b.call.op = "update_scores" /\ b.call.res = "Ok"
       IN /\ added => Len(issued) < MaxPlayers
          /\ scored => rounds < MaxRounds
          /\ issued' = IF added THEN Append(issued, b.call.id) ELSE issued
          /\ rounds' = IF scored THEN rounds + 1 ELSE rounds
          /\ wins' = IF added THEN Insert(wins, b.call.id, 0)
                     ELSE IF scored
                         THEN [wins EXCEPT ![b.call.winner_id] = @ + 1]
                     ELSE wins
          /\ late' = (late \/ (added /\ rounds > 0))

\* What a step does when get_input_safe does not return a line.
NoLine(g) == Quiet(Board, IF g.result = "exit" THEN "exit1" ELSE pc)

RegistrationInput(ev) ==
    /\ pc = "registration"
    /\ LET g == get_input_safe(ev) IN
       \E b \in (IF g.result = "returned"
                 THEN registration_step(Board, g.line) ELSE NoLine(g)) :
           Step(ev, g, b)

MenuInput(ev) ==
    /\ pc = "menu"
    /\ LET g == get_input_safe(ev) IN
       \E b \in (IF g.result = "returned"
                 THEN menu_step(Board, g.line) ELSE NoLine(g)) :
           Step(ev, g, b)

WinnerInput(ev) ==
    /\ pc = "winner"
    /\ LET g == get_input_safe(ev) IN
       \E b \in (IF g.result = "returned"
                 THEN winner_step(Board, g.line) ELSE NoLine(g)) :
           Step(ev, g, b)

NextMain ==
    \/ \E ev \in Failures \cup {Line(raw) : raw \in RegistrationLines} :
           RegistrationInput(ev)
    \/ \E ev \in Failures \cup {Line(raw) : raw \in MenuLines} :
           MenuInput(ev)
    \/ \E ev \in Failures \cup {Line(raw) : raw \in WinnerLines} :
           WinnerInput(ev)

SpecMain == InitMain /\ [][NextMain]_vars

(***************************************************************************)
(* Vocabulary of the properties.                                           *)
(***************************************************************************)
Pre == last.pre

Registered(sb) == DOMAIN sb.players

CalledAdd == last.op = "add_player"

CalledUpdate == last.op = "update_scores"

ReadOps == {"display_scoreboard", "list_players"}

Returned == io.result = "returned"

\* The digits of a token made of ASCII digits, without leading zeros.
TokenDigits(line) == StripZeros([i \in 1..Len(line) |-> line[i] - 48])

\* line is a non-empty string of ASCII digits whose value is in lo..hi,
\* for hi below 10000.
TokenInRange(line, lo, hi) ==
    /\ line # <<>>
    /\ \A i \in 1..Len(line) : IsAsciiDigit(line[i])
    /\ Len(TokenDigits(line)) <= 4
    /\ SmallValue(TokenDigits(line)) \in lo..hi

HasControl(s) == \E i \in 1..Len(s) : IsControl(s[i])

ValidationErrors ==
    {"EmptyName", "NameTooLong", "InvalidCharacters", "DuplicateName"}

MaxOf(S) == IF S = {} THEN 0 ELSE CHOOSE m \in S : \A x \in S : x <= m

SeqRange(q) == {q[i] : i \in 1..Len(q)}

\* The sum of the values of a map.
RECURSIVE SumOf(_)
SumOf(m) ==
    IF DOMAIN m = {} THEN 0
    ELSE LET k == CHOOSE x \in DOMAIN m : TRUE
         IN m[k] + SumOf([x \in (DOMAIN m) \ {k} |-> m[x]])

\* b is the integer a + 1, resp. a - 1, for i32 values a and b.
Raised(a, b) == a < I32_MAX /\ b = a + 1

Lowered(a, b) == a > I32_MIN /\ b = a - 1

TypeOK ==
    /\ pc \in {"api", "registration", "menu", "winner",
               "finished", "exit1", "panic"}
    /\ next_id \in 1..(MaxPlayers + 1)
    /\ rounds \in 0..MaxRounds
    /\ \A k \in DOMAIN players : players[k] \in Names
    /\ \A k \in DOMAIN scores : scores[k] \in I32_MIN..I32_MAX
    /\ DOMAIN wins = DOMAIN players
    /\ late \in BOOLEAN

(***************************************************************************)
(* C1: a successful update_scores(w) raises the score of w by exactly 1    *)
(* and lowers the score of every other registered player by exactly 1;     *)
(* nobody is skipped or adjusted twice, also when w is the only player.    *)
(***************************************************************************)
C1_UpdateScoresEffect ==
    (CalledUpdate /\ last.res = "Ok") =>
        /\ last.winner_id \in Registered(Pre)
        /\ DOMAIN scores = DOMAIN Pre.scores
        /\ scores[last.winner_id] = Pre.scores[last.winner_id] + 1
        /\ \A id \in Registered(Pre) \ {last.winner_id} :
               scores[id] = Pre.scores[id] - 1

C1_Witness ==
    /\ CalledUpdate /\ last.res = "Ok"
    /\ Cardinality(Registered(Pre)) = MaxPlayers
    /\ \E id \in Registered(Pre) : Pre.scores[id] # 0

C1_WitnessSinglePlayer ==
    /\ CalledUpdate /\ last.res = "Ok"
    /\ Registered(Pre) = {last.winner_id}
    /\ scores[last.winner_id] = MaxRounds

(***************************************************************************)
(* C2: update_scores with an id that is not registered (empty registry,    *)
(* never-issued ids such as 999) returns the unknown-player error and      *)
(* leaves names, scores, id set and next_id exactly as they were.          *)
(***************************************************************************)
C2_UnknownWinnerNoEffect ==
    (CalledUpdate /\ last.winner_id \notin Registered(Pre)) =>
        /\ last.res = "UnknownPlayer"
        /\ Board = Pre

C2_Witness ==
    /\ CalledUpdate /\ last.winner_id = 999
    /\ last.res = "UnknownPlayer"
    /\ Cardinality(Registered(Pre)) >= 2
    /\ \E id \in Registered(Pre) : Pre.scores[id] # 0

(***************************************************************************)
(* C3: the k-th successful add_player returns id k; failed add_player      *)
(* calls and update_scores calls in between consume no id, and no id is    *)
(* returned twice.                                                         *)
(***************************************************************************)
C3_SequentialIds ==
    /\ \A k \in 1..Len(issued) : issued[k] = k
    /\ (CalledAdd /\ last.res = "Ok") =>
           /\ last.id = Len(issued)
           /\ last.id = Pre.next_id
    /\ (~(CalledAdd /\ last.res = "Ok")) => next_id = Pre.next_id

C3_Witness ==
    /\ CalledAdd /\ last.res = "Ok"
    /\ last.id = MaxPlayers
    /\ rounds >= 1

(***************************************************************************)
(* C4: no two registered players have the same name (exact comparison);    *)
(* add_player with the name of a registered player fails as a duplicate    *)
(* and the number of players does not change; a name that differs from a   *)
(* registered one only in letter case is not a duplicate.                  *)
(***************************************************************************)
C4_UniqueNames ==
    /\ \A i, j \in DOMAIN players : i # j => players[i] # players[j]
    /\ (CalledAdd /\ last.name \in Values(Pre.players)) =>
           /\ last.res = "DuplicateName"
           /\ Cardinality(DOMAIN players) = Cardinality(Registered(Pre))
    /\ (CalledAdd /\ last.name \notin Values(Pre.players)) =>
           last.res # "DuplicateName"

C4_Witness ==
    /\ CalledAdd /\ last.res = "DuplicateName"
    /\ Cardinality(DOMAIN players) >= 2

C4_WitnessCase ==
    /\ CalledAdd /\ last.res = "Ok"
    /\ \E k \in Registered(Pre) :
           /\ Pre.players[k] # last.name
           /\ ToLower(Pre.players[k]) = ToLower(last.name)

(***************************************************************************)
(* C5: the ids that have a name are exactly the ids that have a score, so  *)
(* the unchecked score lookup of the winner in update_scores never fails.  *)
(***************************************************************************)
C5_SameKeys ==
    /\ DOMAIN players = DOMAIN scores
    /\ last.res # "Panic"

C5_Witness ==
    /\ CalledUpdate /\ last.res = "Ok"
    /\ last.winner_id = next_id - 1
    /\ last.winner_id >= 2

(***************************************************************************)
(* C6: next_id is one more than the highest id ever allocated (1 when      *)
(* none), never decreases, the registered ids are exactly 1..next_id-1     *)
(* and next_id - 1 is the number of registered players.                    *)
(***************************************************************************)
C6_NextId ==
    /\ next_id = MaxOf(SeqRange(issued)) + 1
    /\ next_id >= Pre.next_id
    /\ DOMAIN players = 1..(next_id - 1)
    /\ Cardinality(DOMAIN players) = next_id - 1

C6_Witness ==
    /\ next_id = MaxPlayers + 1
    /\ CalledAdd /\ last.res = "Ok"
    /\ rounds = 0

(***************************************************************************)
(* C7: an add_player that fails for any of the four reasons leaves the     *)
(* board unchanged; next_id moves, by exactly 1, only on a successful      *)
(* add_player.                                                             *)
(***************************************************************************)
C7_FailedAddNoEffect ==
    /\ (CalledAdd /\ last.res # "Ok") =>
           /\ last.res \in ValidationErrors
           /\ Board = Pre
    /\ (CalledAdd /\ last.res = "Ok") => next_id = Pre.next_id + 1
    /\ next_id # Pre.next_id => (CalledAdd /\ last.res = "Ok")

C7_Witness ==
    /\ CalledAdd /\ last.res \in ValidationErrors
    /\ Cardinality(Registered(Pre)) >= 1
    /\ rounds >= 1

(***************************************************************************)
(* C8: add_player rejects a name as too long if and only if its number of  *)
(* codepoints exceeds 20; a name of at most 20 codepoints is not rejected  *)
(* for its length even when its characters take several bytes each.        *)
(***************************************************************************)
C8_LengthInCodepoints ==
    CalledAdd => (last.res = "NameTooLong" <=> CharCount(last.name) > NAME_LIMIT)

C9_WitnessSpaces ==
    /\ CalledAdd /\ last.name = <<32>>
    /\ last.res = "Ok"

(***************************************************************************)
(* C10 as stated: every name with a control character at any position      *)
(* fails with the invalid-characters error and no player is added; no      *)
(* stored name contains a control character.                               *)
(***************************************************************************)
C10_ControlAlwaysInvalid ==
    /\ (CalledAdd /\ HasControl(last.name)) =>
           /\ last.res = "InvalidCharacters"
           /\ Board = Pre
    /\ \A k \in DOMAIN players : ~HasControl(players[k])

(***************************************************************************)
(* C10 amended: every name with a control character at any position fails  *)
(* and no player is added; the error is the invalid-characters one unless  *)
(* the length check, which comes first, rejects the name as too long; no   *)
(* stored name contains a control character.                               *)
(***************************************************************************)
C10_ControlRejected ==
    /\ (CalledAdd /\ HasControl(last.name)) =>
           /\ last.res \in {"InvalidCharacters", "NameTooLong"}
           /\ last.res = "NameTooLong" <=> ByteLen(last.name) > NAME_LIMIT
           /\ Board = Pre
    /\ \A k \in DOMAIN players : ~HasControl(players[k])

C10_Witness ==
    /\ CalledAdd /\ HasControl(last.name)
    /\ last.res = "InvalidCharacters"
    /\ ~IsControl(last.name[1])
    /\ Cardinality(Registered(Pre)) >= 1


(***************************************************************************)
(* C11: when every player was registered before the first update_scores,   *)
(* each score is the number of rounds the player won minus the number of   *)
(* rounds somebody else won; two wins in a row give the winner 2 and every *)
(* other player -2; more wins mean a strictly higher score.                *)
(***************************************************************************)
C11_ScoreIsWinsMinusLosses ==
    (~late) =>
        /\ \A id \in DOMAIN players :
               scores[id] = wins[id] - (rounds - wins[id])
        /\ \A id \in DOMAIN players :
               (rounds = 2 /\ wins[id] = 2) =>
                   /\ scores[id] = 2
                   /\ \A o \in (DOMAIN players) \ {id} : scores[o] = -2
        /\ \A i, j \in DOMAIN players :
               wins[i] > wins[j] => scores[i] > scores[j]

C11_Witness ==
    /\ ~late
    /\ CalledUpdate /\ last.res = "Ok"
    /\ Cardinality(DOMAIN players) = MaxPlayers
    /\ rounds = 2
    /\ wins[last.winner_id] = 2

(***************************************************************************)
(* C12: whatever the current scores, a successful lookup in update_scores  *)
(* is followed by the winner's score being the integer one above the       *)
(* previous one and every other score the integer one below, with no       *)
(* overflow, wrap-around or abort.                                         *)
(***************************************************************************)
C12_NoOverflow ==
    (CalledUpdate /\ last.winner_id \in Registered(Pre)) =>
        /\ last.res = "Ok"
        /\ Raised(Pre.scores[last.winner_id], scores[last.winner_id])
        /\ \A id \in Registered(Pre) \ {last.winner_id} :
               Lowered(Pre.scores[id], scores[id])

(***************************************************************************)
(* C13: a successful add_player adds one player with score 0 and leaves    *)
(* the name and score of every other player as they were, also after       *)
(* scoring has begun; update_scores changes no name, not the set of ids    *)
(* and not next_id; a stored name never changes.                           *)
(***************************************************************************)
C13_Frame ==
    /\ (CalledAdd /\ last.res = "Ok") =>
           /\ last.id \notin Registered(Pre)
           /\ DOMAIN players = Registered(Pre) \cup {last.id}
           /\ DOMAIN scores = (DOMAIN Pre.scores) \cup {last.id}
           /\ players[last.id] = last.name
           /\ scores[last.id] = 0
           /\ \A k \in Registered(Pre) : scores[k] = Pre.scores[k]
    /\ CalledUpdate =>
           /\ players = Pre.players
           /\ DOMAIN scores = DOMAIN Pre.scores
           /\ next_id = Pre.next_id
    /\ \A k \in Registered(Pre) :
           k \in DOMAIN players /\ players[k] = Pre.players[k]

C13_Witness ==
    /\ CalledAdd /\ last.res = "Ok"
    /\ late
    /\ \E k \in Registered(Pre) : scores[k] > 0
    /\ \E k \in Registered(Pre) : scores[k] < 0

(***************************************************************************)
(* C14: display_scoreboard and list_players each print exactly one row per *)
(* registered player, in strictly ascending id order, so the number of     *)
(* rows is the number of successful add_player calls; each row carries the *)
(* player's current name, and each scoreboard row the current score.       *)
(***************************************************************************)
C14_ListingsOrderedById ==
    (last.op \in ReadOps) =>
        /\ Len(out) = Cardinality(DOMAIN players)
        /\ Len(out) = Len(issued)
        /\ {out[i].id : i \in 1..Len(out)} = DOMAIN players
        /\ \A i \in 1..(Len(out) - 1) : out[i].id < out[i + 1].id
        /\ \A i \in 1..Len(out) : out[i].name = players[out[i].id]
        /\ last.op = "display_scoreboard" =>
               \A i \in 1..Len(out) : out[i].score = scores[out[i].id]

C14_Witness ==
    /\ last.op = "display_scoreboard"
    /\ Len(out) = MaxPlayers
    /\ late
    /\ \E i \in 1..(Len(out) - 1) : out[i].score < out[i + 1].score
    /\ \E i \in 1..(Len(out) - 1) : out[i].score > out[i + 1].score

C14_WitnessList ==
    /\ last.op = "list_players"
    /\ Len(out) = MaxPlayers

(***************************************************************************)
(* C15: display_scoreboard and list_players leave names, scores, id set    *)
(* and next_id (and so the outcome of every later call) as they were, and  *)
(* a listing repeated with no other call in between prints the same rows.  *)
(***************************************************************************)
C15_ReadsHaveNoEffect ==
    [][(last'.op \in ReadOps) =>
           /\ players' = players
           /\ scores' = scores
           /\ next_id' = next_id
           /\ issued' = issued /\ rounds' = rounds
           /\ (last.op = last'.op) => out' = out]_vars

C15_Witness ==
    /\ last.op = "list_players"
    /\ Pre = Board
    /\ Len(out) >= 2
    /\ rounds >= 1

(***************************************************************************)
(* C16: add_player applies its checks in the order empty, length,          *)
(* forbidden characters, uniqueness and reports the first that fails; the  *)
(* uniqueness check is reached only by names that passed the other three.  *)
(* The length is the one the code measures (bytes).                        *)
(***************************************************************************)
C16_CheckOrder ==
    CalledAdd =>
        LET empty == last.name = <<>>
            long == ByteLen(last.name) > NAME_LIMIT
            ctrl == HasControl(last.name)
            dup == last.name \in Values(Pre.players)
        IN /\ empty => last.res = "EmptyName"
           /\ (~empty /\ long) => last.res = "NameTooLong"
           /\ (~empty /\ ~long /\ ctrl) => last.res = "InvalidCharacters"
           /\ (~empty /\ ~long /\ ~ctrl /\ dup) => last.res = "DuplicateName"
           /\ (~empty /\ ~long /\ ~ctrl /\ ~dup) => last.res = "Ok"
           /\ last.res = "DuplicateName" => (~empty /\ ~long /\ ~ctrl)

C16_Witness ==
    /\ CalledAdd
    /\ ByteLen(last.name) > NAME_LIMIT
    /\ HasControl(last.name)
    /\ last.res = "NameTooLong"
    /\ Cardinality(Registered(Pre)) >= 1

C16_WitnessControlUnregistered ==
    /\ CalledAdd
    /\ HasControl(last.name)
    /\ last.name \notin Values(Pre.players)
    /\ last.res = "InvalidCharacters"

(***************************************************************************)
(* C17: the menu loop is never entered with an empty registry: "done" in   *)
(* any letter case with no player keeps the program at the registration    *)
(* prompt, so an add_player has succeeded before the first update_scores;  *)
(* once the menu loop has started, add_player is never called again and    *)
(* the program never returns to the registration prompt.                   *)
(***************************************************************************)
C17_ScoringNeedsPlayer ==
    /\ pc \in {"menu", "winner", "finished"} =>
           (DOMAIN players # {} /\ Len(issued) >= 1)
    /\ (io.at = "registration" /\ Returned /\ ToLower(io.line) = DONE
            /\ Registered(Pre) = {}) =>
           (pc = "registration" /\ last.op = "none" /\ Board = Pre)
    /\ CalledUpdate => (Len(issued) >= 1 /\ io.at = "winner")
    /\ CalledAdd => (io.at = "registration" /\ rounds = 0)
    /\ io.at \in {"menu", "winner"} =>
           /\ pc # "registration"
           /\ ~CalledAdd
           /\ players = Pre.players
    /\ ~late

C17_Witness ==
    /\ io.at = "registration" /\ Returned
    /\ io.line # DONE /\ ToLower(io.line) = DONE
    /\ DOMAIN players = {}
    /\ pc = "registration"

C17_WitnessScoring ==
    /\ pc = "menu"
    /\ rounds = MaxRounds
    /\ Cardinality(DOMAIN players) = MaxPlayers

(***************************************************************************)
(* C18: in the menu loop update_scores is called only with a winner id     *)
(* entered as a non-empty string of ASCII digits with a value from 1 to    *)
(* 1000; every other winner token and the choices other than 1 leave the   *)
(* registry unchanged and lead back to the menu; only choice 4 ends the    *)
(* loop.                                                                   *)
(***************************************************************************)
C18_WinnerTokenChecked ==
    /\ CalledUpdate =>
           /\ io.at = "winner" /\ Returned
           /\ TokenInRange(io.line, 1, ID_LIMIT)
           /\ last.winner_id = SmallValue(TokenDigits(io.line))
    /\ (io.at = "winner" /\ Returned) =>
           /\ pc = "menu"
           /\ TokenInRange(io.line, 1, ID_LIMIT) <=> CalledUpdate
    /\ (io.at \in {"menu", "winner"} /\ ~CalledUpdate) =>
           (Board = Pre /\ last.op = "none")
    /\ (io.at = "menu" /\ Returned) =>
           pc = (IF io.line = <<49>> THEN "winner"
                 ELSE IF io.line = <<52>> THEN "finished"
                 ELSE "menu")
    /\ pc = "finished" => (io.at = "menu" /\ Returned /\ io.line = <<52>>)

C18_Witness ==
    /\ CalledUpdate
    /\ io.at = "winner"
    /\ last.winner_id = ID_LIMIT
    /\ last.res = "UnknownPlayer"

C18_WitnessRejected ==
    /\ io.at = "winner" /\ Returned
    /\ Len(io.line) = 20
    /\ last.op = "none"
    /\ rounds >= 1

(***************************************************************************)
(* C19: a boundary read either returns the trimmed line, of at most 50     *)
(* characters, or, at the end of the input or on a read error, ends the    *)
(* process with exit status 1; a line that is too long only brings the     *)
(* same prompt again and never ends the process or reaches the registry;   *)
(* every Err of get_input leads to retry or exit, never to a value.        *)
(***************************************************************************)
C19_BoundaryRead ==
    /\ io.result \in {"none", "returned", "retry", "exit"}
    /\ Returned =>
           /\ io.kind = "line"
           /\ io.line = Trim(io.raw)
           /\ CharCount(io.line) <= INPUT_LIMIT
    /\ io.kind \in {"eof", "read_err"} => io.result = "exit"
    /\ io.result = "exit" <=> pc = "exit1"
    /\ io.result = "exit" =>
           /\ io.kind \in {"eof", "read_err"}
           /\ Board = Pre /\ last.op = "none"
    /\ (io.kind = "line" /\ CharCount(Trim(io.raw)) > INPUT_LIMIT) =>
           io.result = "retry"
    /\ io.result = "retry" =>
           (pc = io.at /\ Board = Pre /\ last.op = "none")
    /\ io.kind \in {"flush_err", "eof", "read_err"} =>
           io.result \in {"retry", "exit"}

C19_Witness ==
    /\ io.kind = "line"
    /\ CharCount(Trim(io.raw)) > INPUT_LIMIT
    /\ io.result = "retry"
    /\ io.at = "winner"
    /\ pc = "winner"

C19_WitnessExit ==
    /\ io.kind = "eof"
    /\ pc = "exit1"
    /\ io.at = "menu"

(***************************************************************************)
(* C20: a successful update_scores among n players changes the sum of all  *)
(* scores by exactly 2 - n and a failed one does not change it; when no    *)
(* player was registered after scoring started, the sum after k successful *)
(* calls is k * (2 - n).                                                   *)
(***************************************************************************)
C20_ScoreSum ==
    LET n == Cardinality(DOMAIN players) IN
    /\ (CalledUpdate /\ last.res = "Ok") =>
           SumOf(scores) = SumOf(Pre.scores) + (2 - n)
    /\ (CalledUpdate /\ last.res # "Ok") => SumOf(scores) = SumOf(Pre.scores)
    /\ (~late) => SumOf(scores) = rounds * (2 - n)

C20_Witness ==
    /\ ~late
    /\ Cardinality(DOMAIN players) = MaxPlayers
    /\ rounds = MaxRounds
    /\ CalledUpdate /\ last.res = "UnknownPlayer"

C20_WitnessTwoPlayers ==
    /\ ~late
    /\ Cardinality(DOMAIN players) = 2
    /\ rounds >= 1
    /\ SumOf(scores) = 0


====
